---- MODULE Spec2Model ----
(***************************************************************************)
(* Model of the anonymous-posting bot of src/bot.py: the on_message        *)
(* handler (one asyncio task per inbound message), the ConfirmationView    *)
(* attached to the prompt it sends (button callbacks, interaction_check,   *)
(* on_timeout) and the relay that follows a confirmed submission.          *)
(*                                                                         *)
(* Every `await` of the source is a point where the handler or callback    *)
(* is suspended; an action of the model runs one task from one await to    *)
(* the next, the way the asyncio event loop does.  The transport calls     *)
(* (send, edit, attachment read) return a result drawn from the outcomes   *)
(* the library documents: success, discord.Forbidden, discord.HTTPException*)
(* (which covers NotFound) or another exception.                           *)
(***************************************************************************)
EXTENDS Naturals, Sequences, FiniteSets

\* ---------------------------------------------------------------- bounds
MaxAtt == 2         \* attachments carried by one inbound message
MaxClicks == 2      \* button interactions delivered to one view
MaxFaults == 2      \* failed transport calls and missing channels in one run
\* the same for the runs with two submissions in flight at once
PairAtt == 1
PairClicks == 1
PairFaults == 1
\* the same for the runs under fairness
LiveAtt == 1
LiveClicks == 1
LiveFaults == 1

Users == {"alice", "bob"}
Texts == {"", "hello"}

None == "None"

\* outcomes of a transport call
Ok == "ok"
Forbidden == "Forbidden"
HTTPException == "HTTPException"
OtherError == "Exception"
Results == {Ok, Forbidden, HTTPException, OtherError}

\* ------------------------------------------------------- message contents
\* A message content as the model carries it: the text, and the attachment
\* count the confirmation prompt interpolates (0 elsewhere).
Content(text, n) == [text |-> text, count |-> n]
NoContent == Content("", 0)

RejectText == Content("Your message must contain text or an attachment to be posted.", 0)
TimedOutText == Content("This anonymous post request has timed out.", 0)
ProcessingText == Content("Processing your request...", 0)
CancelledText == Content("Request cancelled.", 0)
NoChannelText == Content("Failed to post: Anonymous channel not configured correctly. Admin notified.", 0)
NothingPostedText == Content("Your message was empty or attachments could not be processed. Nothing was posted.", 0)
SuccessText == Content("Your message has been posted anonymously to #anon!", 0)
PermissionText == Content("Failed to post. Bot permission error in the anonymous channel. Admin notified.", 0)
NetworkText == Content("Failed to post. A network error occurred. Please try again.", 0)
UnexpectedText == Content("Failed to post due to an unexpected error. Admin has been notified.", 0)

FailureTexts == {NoChannelText, PermissionText, NetworkText, UnexpectedText}

\* confirmation_text of on_message: the question, plus the attachment count
ConfirmationText(n) ==
    IF n > 0
    THEN Content("Do you want to post the content anonymously? (You have n attachment(s))", n)
    ELSE Content("Do you want to post the content anonymously?", 0)

\* the per-file notice of the attachment loop; the count field carries the
\* filename it names
SkipNotice(filename) ==
    Content("Sorry, I couldn't process the attachment. It will be skipped.", filename)

\* --------------------------------------------------------------- state
VARIABLES
    inbox,               \* the inbound messages of this run, one on_message task each
    budget,              \* the clicks a view may receive and the failures the run
                         \* may still see
    pc,                  \* position of each on_message task
    original_message,    \* the inbound message (view.original_message)
    view_message,        \* view.message: the prompt the view is attached to
    confirmed_post,      \* view.confirmed_post: "None", "True", "False"
    disabled,            \* the disabled flag of the view's buttons
    stopped,             \* the view's stopped future: "no", "stop" (stop()), "timeout"
    tasks,               \* the button interactions delivered, in order, each with
                         \* the stage its callback has reached
    timeout_task,        \* the on_timeout task: "none", "pending", "editing", "done"
    prompt,              \* content of the prompt message as the user sees it
    anon_channel,        \* bot.get_channel(ANONYMOUS_CHANNEL_ID)
    mod_log_channel,     \* bot.get_channel(MOD_LOG_CHANNEL_ID)
    files_to_send,       \* files fetched so far
    att_i,               \* loop index over original_message.attachments
    posted_anon_message, \* the Message returned by anon_channel.send
    error,               \* the exception being handled by the except clauses
    branch,              \* what the handler read from view.confirmed_post
    public_sends,        \* calls of anon_channel.send, with their results
    audit_sends,         \* calls of mod_log_channel.send, with their results
    dms                  \* calls of message.author.send after the prompt

viewVars == <<view_message, confirmed_post, disabled, stopped, prompt>>
taskVars == <<tasks, timeout_task>>
relayVars == <<anon_channel, mod_log_channel, files_to_send, att_i,
               posted_anon_message, error, branch>>
worldVars == <<public_sends, audit_sends, dms>>
vars == <<inbox, budget, pc, original_message, viewVars, taskVars, relayVars, worldVars>>

\* the inbound messages the transport can deliver
Attachment(i) == [filename |-> i, url |-> i]
Attachments(n) == [i \in 1..n |-> Attachment(i)]
Message(kind, author, content, n) ==
    [kind |-> kind, author |-> author, content |-> content,
     attachments |-> Attachments(n)]
NoMessage == Message("none", "nobody", "", 0)
DirectMessages(maxAtt) ==
    { Message("dm", u, t, n) : u \in Users, t \in Texts, n \in 0..maxAtt }
InboundMessages ==
    DirectMessages(MaxAtt)
    \cup { Message("guild", "alice", "hello", 0), Message("dm", "bot", "hello", 0) }

Msgs == DOMAIN inbox

\* the state after start-up, before any of the messages of `boxes` arrived
InitWith(boxes, clicks, faults) ==
    /\ inbox \in boxes
    /\ budget = [clicks |-> clicks, faults |-> faults]
    /\ pc = [m \in Msgs |-> "idle"]
    /\ original_message = [m \in Msgs |-> NoMessage]
    /\ view_message = [m \in Msgs |-> None]
    /\ confirmed_post = [m \in Msgs |-> None]
    /\ disabled = [m \in Msgs |-> FALSE]
    /\ stopped = [m \in Msgs |-> "no"]
    /\ tasks = [m \in Msgs |-> <<>>]
    /\ timeout_task = [m \in Msgs |-> "none"]
    /\ prompt = [m \in Msgs |-> NoContent]
    /\ anon_channel = [m \in Msgs |-> None]
    /\ mod_log_channel = [m \in Msgs |-> None]
    /\ files_to_send = [m \in Msgs |-> <<>>]
    /\ att_i = [m \in Msgs |-> 0]
    /\ posted_anon_message = [m \in Msgs |-> None]
    /\ error = [m \in Msgs |-> None]
    /\ branch = [m \in Msgs |-> "unread"]
    /\ public_sends = [m \in Msgs |-> <<>>]
    /\ audit_sends = [m \in Msgs |-> <<>>]
    /\ dms = [m \in Msgs |-> <<>>]

\* one inbound message
Init == InitWith({<<msg>> : msg \in InboundMessages}, MaxClicks, MaxFaults)

\* two inbound messages, handled concurrently
PairMessages == {msg \in InboundMessages : Len(msg.attachments) <= PairAtt}
PairInit ==
    InitWith({<<a, b>> : a \in PairMessages, b \in PairMessages}, PairClicks, PairFaults)

\* the results a transport call can have, and what a failure costs the run
Outcomes == IF budget.faults > 0 THEN Results ELSE {Ok}
Spend(r) == IF r = Ok THEN budget ELSE [budget EXCEPT !.faults = @ - 1]

\* what bot.get_channel can return for the two configured channels: each is
\* found, or missing (None) at the cost of one failure
Lookups ==
    { c \in [anon : {None, "Channel"}, log : {None, "Channel"}] :
        (IF c.anon = None THEN 1 ELSE 0) + (IF c.log = None THEN 1 ELSE 0)
            <= budget.faults }
SpendLookup(c) ==
    [budget EXCEPT !.faults = @ - ((IF c.anon = None THEN 1 ELSE 0)
                                   + (IF c.log = None THEN 1 ELSE 0))]

\* a call of message.author.send and its result
Dm(content, r) == [content |-> content, result |-> r]

\* ------------------------------------------------------ on_message: entry
\* the tests of lines 127 and 131: not a message of the bot itself, and
\* received in a DM channel
IsSubmission_own_messages(msg) == msg.kind = "dm"
IsSubmission(msg) == msg.author # "bot" /\ msg.kind = "dm"

\* on_message, lines 126-131: the bot's own messages return at once, messages
\* outside a DM channel go straight to process_commands.
OnMessageIgnored(m) ==
    /\ pc[m] = "idle"
    /\ LET msg == inbox[m]
       IN /\ ~IsSubmission(msg)
          /\ original_message' = [original_message EXCEPT ![m] = msg]
    /\ pc' = [pc EXCEPT ![m] = "done"]
    /\ UNCHANGED <<inbox, budget, viewVars, taskVars, relayVars, worldVars>>

\* the test of line 133: neither text nor attachments
IsEmptyMessage_dropped_not(msg) == msg.content = "" /\ Len(msg.attachments) # 0
IsEmptyMessage(msg) == msg.content = "" /\ Len(msg.attachments) = 0

\* on_message, lines 133-135: a DM with neither text nor attachments is
\* answered with the rejection notice and the handler returns.
OnMessageReject(m) ==
    /\ pc[m] = "idle"
    /\ \E r \in Outcomes :
         LET msg == inbox[m]
         IN /\ IsSubmission(msg)
            /\ IsEmptyMessage(msg)
            /\ original_message' = [original_message EXCEPT ![m] = msg]
            /\ dms' = [dms EXCEPT ![m] = Append(@, Dm(RejectText, r))]
            /\ pc' = [pc EXCEPT ![m] = IF r = Ok THEN "done" ELSE "raised_reject"]
            /\ budget' = Spend(r)
    /\ UNCHANGED <<inbox, viewVars, taskVars, relayVars, public_sends, audit_sends>>

\* on_message, lines 140-148: the view is built, the prompt is sent with it
\* and the handler suspends in view.wait().  A failed send raises out of
\* the handler before the view is stored or linked to a message.
OnMessagePrompt(m) ==
    /\ pc[m] = "idle"
    /\ \E r \in Outcomes :
         LET msg == inbox[m]
         IN /\ IsSubmission(msg)
            /\ ~IsEmptyMessage(msg)
            /\ original_message' = [original_message EXCEPT ![m] = msg]
            /\ IF r = Ok
               THEN /\ view_message' = [view_message EXCEPT ![m] = "Message"]
                    /\ prompt' = [prompt EXCEPT
                           ![m] = ConfirmationText(Len(msg.attachments))]
                    /\ pc' = [pc EXCEPT ![m] = "wait"]
               ELSE /\ UNCHANGED <<view_message, prompt>>
                    /\ pc' = [pc EXCEPT ![m] = "raised_prompt"]
            /\ budget' = Spend(r)
    /\ UNCHANGED <<inbox, confirmed_post, disabled, stopped, taskVars,
                   relayVars, worldVars>>

\* ------------------------------------------------------- ConfirmationView
\* ConfirmationView.interaction_check: only the author of the original
\* message may use the buttons.
interaction_check_anyone(m, user) == TRUE
interaction_check(m, user) == user = original_message[m].author

\* the buttons shown on the prompt can still be pressed: no edit has yet
\* replaced the prompt (every edit carries the disabled view or view=None)
ButtonsShown(m) ==
    /\ view_message[m] # None
    /\ prompt[m] = ConfirmationText(Len(original_message[m].attachments))

Pending(m) == {k \in 1..Len(tasks[m]) : tasks[m][k].stage = "pending"}
Editing(m) == {k \in 1..Len(tasks[m]) : tasks[m][k].stage = "editing"}

\* View.stop(): resolves the stopped future once
Stop_every_view(m) == [k \in Msgs |-> IF stopped[k] = "no" THEN "stop" ELSE stopped[k]]
Stop(m) == [stopped EXCEPT ![m] = IF @ = "no" THEN "stop" ELSE @]

\* A button interaction reaches the view: the library drops it when the view
\* has stopped, and otherwise schedules the callback as a task of its own.
Dispatch(m) ==
    /\ ButtonsShown(m)
    /\ stopped[m] = "no"
    /\ Len(tasks[m]) < budget.clicks
    /\ \E user \in Users, choice \in {"confirm", "cancel"} :
         tasks' = [tasks EXCEPT ![m] =
                     Append(@, [user |-> user, choice |-> choice, stage |-> "pending"])]
    /\ UNCHANGED <<inbox, budget, pc, original_message, viewVars, timeout_task,
                   relayVars, worldVars>>

\* confirm_button / cancel_button up to their await: the scheduled callback
\* runs interaction_check, records the choice, disables the buttons and
\* suspends in interaction.response.edit_message.  Scheduled callbacks start
\* in the order they were dispatched.
RunCallback(m) ==
    /\ Pending(m) # {}
    /\ LET k == CHOOSE j \in Pending(m) : \A i \in Pending(m) : j <= i
           t == tasks[m][k]
       IN IF interaction_check(m, t.user)
          THEN /\ confirmed_post' = [confirmed_post EXCEPT
                      ![m] = IF t.choice = "confirm" THEN "True" ELSE "False"]
               /\ disabled' = [disabled EXCEPT ![m] = TRUE]
               /\ tasks' = [tasks EXCEPT ![m][k].stage = "editing"]
          ELSE /\ tasks' = [tasks EXCEPT ![m][k].stage = "refused"]
               /\ UNCHANGED <<confirmed_post, disabled>>
    /\ UNCHANGED <<inbox, budget, pc, original_message, view_message, stopped, prompt,
                   timeout_task, relayVars, worldVars>>

\* the notice a button callback writes to the prompt
DecisionText(choice) == IF choice = "confirm" THEN ProcessingText ELSE CancelledText

\* confirm_button / cancel_button after their await: when the edit went
\* through the view is stopped; when it raised, the callback ends there and
\* stop() is never reached.
FinishCallback(m) ==
    \E k \in Editing(m), r \in Outcomes :
      /\ budget' = Spend(r)
      /\ IF r = Ok
         THEN /\ prompt' = [prompt EXCEPT ![m] = DecisionText(tasks[m][k].choice)]
              /\ stopped' = Stop(m)
              /\ tasks' = [tasks EXCEPT ![m][k].stage = "stopped"]
         ELSE /\ tasks' = [tasks EXCEPT ![m][k].stage = "raised"]
              /\ UNCHANGED <<prompt, stopped>>
      /\ UNCHANGED <<inbox, pc, original_message, view_message, confirmed_post,
                     disabled, timeout_task, relayVars, worldVars>>

\* line 62: the view is built with a timeout, so its timer is armed when the
\* prompt is sent
HasTimeout_none == FALSE
HasTimeout == TRUE

\* The view's timeout (timeout=300) elapses before the view stopped: the
\* library resolves the stopped future and schedules on_timeout as a task.
Timeout(m) ==
    /\ HasTimeout
    /\ view_message[m] # None
    /\ stopped[m] = "no"
    /\ stopped' = [stopped EXCEPT ![m] = "timeout"]
    /\ timeout_task' = [timeout_task EXCEPT ![m] = "pending"]
    /\ UNCHANGED <<inbox, budget, pc, original_message, view_message, confirmed_post, disabled,
                   prompt, tasks, relayVars, worldVars>>

\* on_timeout up to its await: the buttons are disabled and the prompt edit
\* is issued.  The task was scheduled after the handler's wake-up and after
\* the callbacks dispatched before the timeout, so it starts after them.
RunOnTimeout(m) ==
    /\ timeout_task[m] = "pending"
    /\ pc[m] # "wait"
    /\ Pending(m) = {}
    /\ disabled' = [disabled EXCEPT ![m] = TRUE]
    /\ timeout_task' = [timeout_task EXCEPT
           ![m] = IF view_message[m] # None THEN "editing" ELSE "done"]
    /\ UNCHANGED <<inbox, budget, pc, original_message, view_message, confirmed_post, stopped,
                   prompt, tasks, relayVars, worldVars>>

\* lines 76-84: where on_timeout is once its edit returned or raised: both
\* except clauses fall through to the end of the method
OnTimeoutAfterEdit_propagates(r) == IF r = Ok THEN "done" ELSE "raised"
OnTimeoutAfterEdit(r) == "done"

\* on_timeout after its await: NotFound and every other exception of the
\* edit are swallowed, then stop() is called (the view has already stopped).
FinishOnTimeout(m) ==
    /\ timeout_task[m] = "editing"
    /\ \E r \in Outcomes :
         /\ budget' = Spend(r)
         /\ IF r = Ok
            THEN prompt' = [prompt EXCEPT ![m] = TimedOutText]
            ELSE UNCHANGED prompt
         /\ timeout_task' = [timeout_task EXCEPT ![m] = OnTimeoutAfterEdit(r)]
    /\ stopped' = Stop(m)
    /\ UNCHANGED <<inbox, pc, original_message, view_message, confirmed_post, disabled,
                   tasks, relayVars, worldVars>>

\* ------------------------------------------------------ on_message: relay
\* the test of line 151
IsConfirmed_unless_cancelled(m) == confirmed_post[m] # "False"
IsConfirmed(m) == confirmed_post[m] = "True"

NumAttachments(m) == Len(original_message[m].attachments)

\* line 180: text blank and no file fetched
NothingToPost_never(m, files) == FALSE
NothingToPost(m, files) == original_message[m].content = "" /\ files = <<>>

\* where the handler suspends next once attachment i has been dealt with:
\* the read of the next attachment, else (lines 180-196) the edit that
\* reports an empty post or the send to the anonymous channel
AfterAttachment(m, i, files) ==
    IF i < NumAttachments(m) THEN "read"
    ELSE IF NothingToPost(m, files) THEN "edit_empty"
    ELSE "send_public"

\* lines 148-168: view.wait() returns once the stopped future is resolved
\* (the callbacks scheduled before that run first), the handler reads
\* confirmed_post, looks the channels up and runs to its first await.
Resume(m) ==
    /\ pc[m] = "wait"
    /\ stopped[m] # "no"
    /\ Pending(m) = {}
    /\ IF IsConfirmed(m)
       THEN /\ branch' = [branch EXCEPT ![m] = "confirmed"]
            /\ \E c \in Lookups :
                 /\ anon_channel' = [anon_channel EXCEPT ![m] = c.anon]
                 /\ mod_log_channel' = [mod_log_channel EXCEPT ![m] = c.log]
                 /\ budget' = SpendLookup(c)
                 /\ IF c.anon = None
                    THEN /\ pc' = [pc EXCEPT ![m] = "edit_no_channel"]
                         /\ UNCHANGED att_i
                    ELSE /\ pc' = [pc EXCEPT ![m] = AfterAttachment(m, 0, <<>>)]
                         /\ att_i' = [att_i EXCEPT
                                ![m] = IF NumAttachments(m) > 0 THEN 1 ELSE 0]
       ELSE /\ branch' = [branch EXCEPT
                   ![m] = IF confirmed_post[m] = "False" THEN "cancelled" ELSE "timeout"]
            /\ pc' = [pc EXCEPT ![m] = "done"]
            /\ UNCHANGED <<budget, anon_channel, mod_log_channel, att_i>>
    /\ UNCHANGED <<inbox, original_message, viewVars, taskVars, files_to_send,
                   posted_anon_message, error, worldVars>>

\* an edit of the prompt by the handler (view.message.edit(content, view=None))
\* that went through
EditPrompt(m, content) == prompt' = [prompt EXCEPT ![m] = content]

\* a notice of the handler to the submitter: the prompt is edited when
\* view.message is set, and a DM is sent otherwise; an exception of either
\* call is caught nowhere and ends the handler
Notify(m, content, r) ==
    /\ IF view_message[m] # None
       THEN /\ IF r = Ok THEN EditPrompt(m, content) ELSE UNCHANGED prompt
            /\ UNCHANGED dms
       ELSE /\ dms' = [dms EXCEPT ![m] = Append(@, Dm(content, r))]
            /\ UNCHANGED prompt
    /\ pc' = [pc EXCEPT ![m] = IF r = Ok THEN "done" ELSE "raised_edit"]
    /\ budget' = Spend(r)

\* lines 156-161: the anonymous channel is not found
EditNoChannel(m) ==
    /\ pc[m] = "edit_no_channel"
    /\ \E r \in Outcomes : Notify(m, NoChannelText, r)
    /\ UNCHANGED <<inbox, original_message, view_message, confirmed_post, disabled, stopped,
                   taskVars, relayVars, public_sends, audit_sends>>

\* the discord.File built from attachment i
File(m, i) == [filename |-> original_message[m].attachments[i].filename,
               bytes |-> original_message[m].attachments[i].url]

\* lines 169-175: attachment.read() of the current attachment; on success
\* the file is appended, on any exception the notice of line 177 is next
ReadAttachment(m) ==
    /\ pc[m] = "read"
    /\ \E r \in Outcomes :
         /\ budget' = Spend(r)
         /\ IF r = Ok
            THEN /\ files_to_send' = [files_to_send EXCEPT ![m] = Append(@, File(m, att_i[m]))]
                 /\ pc' = [pc EXCEPT ![m] =
                             AfterAttachment(m, att_i[m], Append(files_to_send[m], File(m, att_i[m])))]
                 /\ att_i' = [att_i EXCEPT
                        ![m] = IF @ < NumAttachments(m) THEN @ + 1 ELSE @]
            ELSE /\ pc' = [pc EXCEPT ![m] = "notice"]
              /\ UNCHANGED <<files_to_send, att_i>>
    /\ UNCHANGED <<inbox, original_message, viewVars, taskVars, anon_channel, mod_log_channel,
                   posted_anon_message, error, branch, worldVars>>

\* line 177: the per-file notice is sent to the submitter inside the except
\* clause; an exception of this send is not caught anywhere
SendSkipNotice(m) ==
    /\ pc[m] = "notice"
    /\ \E r \in Outcomes :
         /\ budget' = Spend(r)
         /\ dms' = [dms EXCEPT ![m] =
                      Append(@, Dm(SkipNotice(original_message[m].attachments[att_i[m]].filename), r))]
         /\ IF r = Ok
            THEN /\ pc' = [pc EXCEPT ![m] = AfterAttachment(m, att_i[m], files_to_send[m])]
                 /\ att_i' = [att_i EXCEPT
                        ![m] = IF @ < NumAttachments(m) THEN @ + 1 ELSE @]
            ELSE /\ pc' = [pc EXCEPT ![m] = "raised_notice"]
                 /\ UNCHANGED att_i
    /\ UNCHANGED <<inbox, original_message, viewVars, taskVars, anon_channel, mod_log_channel,
                   files_to_send, posted_anon_message, error, branch,
                   public_sends, audit_sends>>

\* lines 180-184: nothing is left to post
EditEmpty(m) ==
    /\ pc[m] = "edit_empty"
    /\ \E r \in Outcomes : Notify(m, NothingPostedText, r)
    /\ UNCHANGED <<inbox, original_message, view_message, confirmed_post, disabled, stopped,
                   taskVars, relayVars, public_sends, audit_sends>>

\* lines 186-196: what anon_channel.send is given: the embed carrying the
\* text (no embed when the text is blank) and the fetched files
PublicPayload_signed(m) ==
    [embed |-> [present |-> TRUE,
                description |-> original_message[m].author],
     files |-> files_to_send[m]]
PublicPayload(m) ==
    [embed |-> [present |-> original_message[m].content # "",
                description |-> original_message[m].content],
     files |-> files_to_send[m]]

Sent(payload, r) == [payload |-> payload, result |-> r]

\* the try block of line 191: after anon_channel.send the handler goes on to
\* the success notice, and an exception takes it to the except clauses
AfterSend_swallowed(r) == "edit_success"
AfterSend_retry(r) == IF r = Ok THEN "edit_success" ELSE "send_public"
AfterSend(r) == IF r = Ok THEN "edit_success" ELSE "edit_failure"

\* the tests of lines 193 and 195: there are files, or there is text
HasPayload(m) == files_to_send[m] # <<>> \/ original_message[m].content # ""

\* lines 191-196: the send to the anonymous channel; an exception enters the
\* except clauses of lines 240-252.  With neither files nor text no send is
\* made and the handler goes on to the success notice.
SendPublic(m) ==
    /\ pc[m] = "send_public"
    /\ IF HasPayload(m)
       THEN \E r \in Outcomes :
              /\ budget' = Spend(r)
              /\ public_sends' = [public_sends EXCEPT
                     ![m] = Append(@, Sent(PublicPayload(m), r))]
              /\ IF r = Ok
                 THEN /\ posted_anon_message' = [posted_anon_message EXCEPT ![m] = "Message"]
                      /\ UNCHANGED error
                 ELSE /\ error' = [error EXCEPT ![m] = r]
                      /\ UNCHANGED posted_anon_message
              /\ pc' = [pc EXCEPT ![m] = AfterSend(r)]
       ELSE /\ pc' = [pc EXCEPT ![m] = "edit_success"]
            /\ UNCHANGED <<budget, public_sends, posted_anon_message, error>>
    /\ UNCHANGED <<inbox, original_message, viewVars, taskVars, anon_channel, mod_log_channel,
                   files_to_send, att_i, branch, audit_sends, dms>>

\* lines 198-207: the success notice, inside the same try block as the send;
\* afterwards the audit record is sent unless the mod log channel is missing
EditSuccess(m) ==
    /\ pc[m] = "edit_success"
    /\ \E r \in Outcomes :
         /\ budget' = Spend(r)
         /\ IF view_message[m] # None
            THEN /\ IF r = Ok THEN EditPrompt(m, SuccessText)
                    ELSE UNCHANGED prompt
                 /\ UNCHANGED dms
            ELSE /\ dms' = [dms EXCEPT ![m] = Append(@, Dm(SuccessText, r))]
                 /\ UNCHANGED prompt
         /\ IF r = Ok
            THEN /\ pc' = [pc EXCEPT
                        ![m] = IF mod_log_channel[m] = None THEN "done" ELSE "send_audit"]
                 /\ UNCHANGED error
            ELSE /\ error' = [error EXCEPT ![m] = r]
                 /\ pc' = [pc EXCEPT ![m] = "edit_failure"]
    /\ UNCHANGED <<inbox, original_message, view_message, confirmed_post, disabled, stopped,
                   taskVars, anon_channel, mod_log_channel, files_to_send, att_i,
                   posted_anon_message, branch, public_sends, audit_sends>>

\* lines 209-230: the log embed: author, original content, links to all the
\* original attachments, and the jump link to the anonymous post
LogEmbed(m) ==
    [author |-> original_message[m].author,
     content |-> IF original_message[m].content # ""
                 THEN original_message[m].content ELSE "*(No text content)*",
     attachments |-> original_message[m].attachments,
     jump |-> posted_anon_message[m]]

\* lines 232-238: the send to the mod log channel; Forbidden and
\* HTTPException are printed, any other exception reaches the outer
\* `except Exception` of line 248
SendAudit(m) ==
    /\ pc[m] = "send_audit"
    /\ \E r \in Outcomes :
         /\ budget' = Spend(r)
         /\ audit_sends' = [audit_sends EXCEPT ![m] = Append(@, Sent(LogEmbed(m), r))]
         /\ IF r \in {Ok, Forbidden, HTTPException}
            THEN /\ pc' = [pc EXCEPT ![m] = "done"]
                 /\ UNCHANGED error
            ELSE /\ error' = [error EXCEPT ![m] = r]
                 /\ pc' = [pc EXCEPT ![m] = "edit_failure"]
    /\ UNCHANGED <<inbox, original_message, viewVars, taskVars, anon_channel, mod_log_channel,
                   files_to_send, att_i, posted_anon_message, branch,
                   public_sends, dms>>

\* the except clauses of lines 240-252, tried in order
FailureText(e) ==
    IF e = Forbidden THEN PermissionText
    ELSE IF e = HTTPException THEN NetworkText
    ELSE UnexpectedText

\* lines 240-252: the failure notice of the matching except clause
EditFailure(m) ==
    /\ pc[m] = "edit_failure"
    /\ \E r \in Outcomes : Notify(m, FailureText(error[m]), r)
    /\ UNCHANGED <<inbox, original_message, view_message, confirmed_post, disabled, stopped,
                   taskVars, relayVars, public_sends, audit_sends>>

\* ---------------------------------------------------------- specification
Next ==
    \/ \E m \in Msgs : OnMessageIgnored(m)
    \/ \E m \in Msgs : OnMessageReject(m)
    \/ \E m \in Msgs : OnMessagePrompt(m)
    \/ \E m \in Msgs : Dispatch(m)
    \/ \E m \in Msgs : RunCallback(m)
    \/ \E m \in Msgs : FinishCallback(m)
    \/ \E m \in Msgs : Timeout(m)
    \/ \E m \in Msgs : RunOnTimeout(m)
    \/ \E m \in Msgs : FinishOnTimeout(m)
    \/ \E m \in Msgs : Resume(m)
    \/ \E m \in Msgs : EditNoChannel(m)
    \/ \E m \in Msgs : ReadAttachment(m)
    \/ \E m \in Msgs : SendSkipNotice(m)
    \/ \E m \in Msgs : EditEmpty(m)
    \/ \E m \in Msgs : SendPublic(m)
    \/ \E m \in Msgs : EditSuccess(m)
    \/ \E m \in Msgs : SendAudit(m)
    \/ \E m \in Msgs : EditFailure(m)

Spec == Init /\ [][Next]_vars

\* two submissions in flight at once
PairSpec == PairInit /\ [][Next]_vars

\* What the event loop and the transport guarantee once a prompt is out: the
\* view's timer runs down, a task that is ready to run is run, and a
\* transport call that was awaited returns or raises.  Nothing obliges a user
\* to press a button.
Fairness ==
    /\ WF_vars(\E m \in Msgs : Timeout(m))
    /\ WF_vars(\E m \in Msgs : RunCallback(m))
    /\ WF_vars(\E m \in Msgs : FinishCallback(m))
    /\ WF_vars(\E m \in Msgs : RunOnTimeout(m))
    /\ WF_vars(\E m \in Msgs : FinishOnTimeout(m))
    /\ WF_vars(\E m \in Msgs : Resume(m))
    /\ WF_vars(\E m \in Msgs : EditNoChannel(m))
    /\ WF_vars(\E m \in Msgs : ReadAttachment(m))
    /\ WF_vars(\E m \in Msgs : SendSkipNotice(m))
    /\ WF_vars(\E m \in Msgs : EditEmpty(m))
    /\ WF_vars(\E m \in Msgs : SendPublic(m))
    /\ WF_vars(\E m \in Msgs : EditSuccess(m))
    /\ WF_vars(\E m \in Msgs : SendAudit(m))
    /\ WF_vars(\E m \in Msgs : EditFailure(m))

\* one inbound message, under these guarantees
LiveMessages == {msg \in InboundMessages : Len(msg.attachments) <= LiveAtt}
LiveInit == InitWith({<<msg>> : msg \in LiveMessages}, LiveClicks, LiveFaults)
LiveSpec == LiveInit /\ [][Next]_vars /\ Fairness

\* ------------------------------------------------------------ properties
\* the button callbacks that passed interaction_check and ran their body
AcceptedStages == {"editing", "stopped", "raised"}
Accepted(m) == {k \in 1..Len(tasks[m]) : tasks[m][k].stage \in AcceptedStages}
AuthorConfirmed(m) ==
    \E k \in Accepted(m) :
      /\ tasks[m][k].user = original_message[m].author
      /\ tasks[m][k].choice = "confirm"
TimeoutFired(m) == timeout_task[m] # "none"

PublicOk(m) == \E i \in 1..Len(public_sends[m]) : public_sends[m][i].result = Ok
PublicFailed(m) == \E i \in 1..Len(public_sends[m]) : public_sends[m][i].result # Ok

\* the handler has returned or has been left by an exception
Raised == {"raised_reject", "raised_prompt", "raised_notice", "raised_edit"}
Ended == {"done"} \cup Raised

\* C1: a message is sent to the public channel (or to the audit channel) for
\* a submission only after the submission's own author pressed confirm on its
\* prompt; a session that saw no confirm sends nothing.
C1_SendOnlyAfterAuthorConfirm ==
    \A m \in Msgs :
      (public_sends[m] # <<>> \/ audit_sends[m] # <<>>) => AuthorConfirmed(m)

C1_Witness ==
    \E m \in Msgs : PublicOk(m) /\ audit_sends[m] # <<>> /\ AuthorConfirmed(m)

\* C2: exactly one of {decide, expire} takes effect per session: once the
\* handler has resumed, one terminal transition (an accepted click or the
\* timeout) happened, and the branch the handler takes and the timeout notice
\* on the prompt belong to that winner.
C2_SingleWinner ==
    \A m \in Msgs :
      /\ branch[m] # "unread" =>
           Cardinality(Accepted(m)) + (IF TimeoutFired(m) THEN 1 ELSE 0) = 1
      /\ branch[m] = "confirmed" => ~TimeoutFired(m)
      /\ prompt[m] = TimedOutText => branch[m] \in {"unread", "timeout"}

\* C3: while a session awaits its decision, the callback of an interaction
\* by a user other than the author changes nothing of the session: not
\* confirmed_post, the disabled flag, the prompt, the stopped future or the
\* timeout, and the handler does not move (no relay).
ForeignCallbackRuns(m) ==
    /\ Pending(m) # {}
    /\ LET k == CHOOSE j \in Pending(m) : \A i \in Pending(m) : j <= i
       IN /\ tasks[m][k].user # original_message[m].author
          /\ tasks'[m][k].stage # "pending"

C3_NonAuthorIgnored ==
    [][\A m \in Msgs :
         ForeignCallbackRuns(m) =>
           UNCHANGED <<confirmed_post[m], disabled[m], prompt[m], stopped[m],
                       timeout_task[m], view_message[m], pc[m], branch[m],
                       public_sends[m], audit_sends[m], dms[m]>>]_vars

C3_Witness ==
    \E m \in Msgs :
      /\ \E k \in 1..Len(tasks[m]) : tasks[m][k].stage = "refused"
      /\ pc[m] = "wait" /\ stopped[m] = "no" /\ confirmed_post[m] = None

\* C4: two submissions with the same text and the same attachments whose
\* fetches had the same outcomes put the same payload on the public channel,
\* whoever their authors are.
SameSubmission(a, b) ==
    /\ original_message[a].content = original_message[b].content
    /\ original_message[a].attachments = original_message[b].attachments
    /\ files_to_send[a] = files_to_send[b]

C4_PayloadIgnoresAuthor ==
    \A a \in Msgs, b \in Msgs :
      (public_sends[a] # <<>> /\ public_sends[b] # <<>> /\ SameSubmission(a, b))
        => public_sends[a][1].payload = public_sends[b][1].payload

C4_Witness ==
    \E a \in Msgs, b \in Msgs :
      /\ original_message[a].author # original_message[b].author
      /\ PublicOk(a) /\ PublicOk(b) /\ SameSubmission(a, b)
      /\ files_to_send[a] # <<>>

\* C5: once the public send succeeded (and the mod log channel is there), an
\* audit record with the author, the original text, all the original
\* attachments and the link to the public post has been sent by the time the
\* handler ends, whatever happened to the success notice.
AuditRecord(m) ==
    [author |-> original_message[m].author,
     content |-> IF original_message[m].content # ""
                 THEN original_message[m].content ELSE "*(No text content)*",
     attachments |-> original_message[m].attachments,
     jump |-> "Message"]

C5_AuditFollowsPost ==
    \A m \in Msgs :
      (PublicOk(m) /\ mod_log_channel[m] # None /\ pc[m] \in Ended)
        => \E i \in 1..Len(audit_sends[m]) : audit_sends[m][i].payload = AuditRecord(m)

\* C6: an audit record is sent only after a successful public send; after a
\* failed public send no audit record is sent, the handler's one remaining
\* step is the failure notice, and when that edit goes through the prompt
\* shows the notice of the error.
C6_NoAuditWithoutPost ==
    [][\A m \in Msgs :
         /\ audit_sends'[m] # <<>> => PublicOk(m)'
         /\ PublicFailed(m)' =>
              /\ audit_sends'[m] = <<>>
              /\ pc'[m] \in {"edit_failure", "done", "raised_edit"}
         /\ (PublicFailed(m) /\ pc[m] = "edit_failure" /\ pc'[m] = "done") =>
              /\ prompt'[m] = FailureText(error[m])
              /\ prompt'[m] \in FailureTexts]_vars

C6_Witness ==
    \E m \in Msgs :
      /\ PublicFailed(m) /\ pc[m] = "done"
      /\ prompt[m] \in FailureTexts /\ audit_sends[m] = <<>>

\* C7: the public channel is sent to at most once per inbound message, a
\* failed send included.
C7_AtMostOnePublicSend ==
    \A m \in Msgs : Len(public_sends[m]) <= 1

C7_Witness ==
    \E m \in Msgs :
      /\ PublicFailed(m) /\ pc[m] \in Ended
      /\ Cardinality(Accepted(m)) >= 2 /\ TimeoutFired(m)

\* C8: once the relay is past the attachment loop or has ended, every
\* attachment has been dealt with: the fetched ones are in files_to_send in
\* their original order, each of the others has its notice, and no failure
\* stopped the loop.
SkipNotices(m) ==
    {i \in 1..Len(dms[m]) : dms[m][i].content.text = SkipNotice(0).text}
PastLoop == {"edit_empty", "send_public", "edit_success", "send_audit",
             "edit_failure"} \cup Ended

C8_EveryAttachmentHandled ==
    \A m \in Msgs :
      (branch[m] = "confirmed" /\ anon_channel[m] # None /\ pc[m] \in PastLoop)
        => /\ pc[m] # "raised_notice"
           /\ Len(files_to_send[m]) + Cardinality(SkipNotices(m)) = NumAttachments(m)
           /\ \A i \in 1..NumAttachments(m) :
                \/ \E j \in 1..Len(files_to_send[m]) :
                     files_to_send[m][j].filename = original_message[m].attachments[i].filename
                \/ \E j \in SkipNotices(m) :
                     dms[m][j].content.count = original_message[m].attachments[i].filename
           /\ \A j1 \in 1..Len(files_to_send[m]), j2 \in 1..Len(files_to_send[m]) :
                j1 < j2 => files_to_send[m][j1].filename < files_to_send[m][j2].filename

\* C9: when the text is blank and every attachment failed to be fetched,
\* nothing is sent to the public or audit channel and the handler ends
\* through the edit that reports that nothing was posted.
AllFetchesFailed(m) ==
    /\ branch[m] = "confirmed" /\ anon_channel[m] # None
    /\ original_message[m].content = ""
    /\ NumAttachments(m) > 0
    /\ Cardinality(SkipNotices(m)) = NumAttachments(m)

C9_EmptyRelayAborts ==
    \A m \in Msgs :
      AllFetchesFailed(m) =>
        /\ public_sends[m] = <<>> /\ audit_sends[m] = <<>>
        /\ pc[m] \in Ended => pc[m] \in {"done", "raised_edit"}

\* C10: a direct message with no text and no attachment gets no prompt and
\* no view; the rejection notice is sent to its author and nothing goes to the
\* public or audit channel.
IsBlankDm(m) ==
    /\ pc[m] # "idle"
    /\ original_message[m].kind = "dm" /\ original_message[m].author # "bot"
    /\ original_message[m].content = "" /\ Len(original_message[m].attachments) = 0

C10_EmptyMessageRejected ==
    \A m \in Msgs :
      IsBlankDm(m) =>
        /\ view_message[m] = None /\ prompt[m] = NoContent
        /\ tasks[m] = <<>> /\ stopped[m] = "no" /\ timeout_task[m] = "none"
        /\ public_sends[m] = <<>> /\ audit_sends[m] = <<>>
        /\ Len(dms[m]) = 1 /\ dms[m][1].content = RejectText
        /\ pc[m] \in {"done", "raised_reject"}

C10_Witness ==
    \E m \in Msgs : IsBlankDm(m) /\ pc[m] = "done" /\ dms[m] = <<Dm(RejectText, Ok)>>

\* C11: when the timeout fires on a session with no accepted decision, the
\* session expires: on_timeout disables the buttons and edits the prompt to
\* the timed-out notice, the handler resumes into the timeout branch and ends
\* without a public send, an audit send or a DM; when the edit raises (any
\* error) on_timeout still ends and the handler still resumes.
Expiring(m) == TimeoutFired(m) /\ Accepted(m) = {} /\ Pending(m) = {}

C11_ExpiryCompletes ==
    [][\A m \in Msgs :
         Expiring(m)' =>
           /\ stopped'[m] = "timeout" /\ confirmed_post'[m] = None
           /\ public_sends'[m] = <<>> /\ audit_sends'[m] = <<>> /\ dms'[m] = <<>>
           /\ pc'[m] \in {"wait", "done"}
           /\ pc'[m] = "done" => branch'[m] = "timeout"
           /\ timeout_task'[m] \in {"pending", "editing", "done"}
           /\ timeout_task'[m] # "pending" => disabled'[m] /\ pc'[m] = "done"
           /\ (timeout_task[m] = "editing" /\ timeout_task'[m] # "editing") =>
                /\ timeout_task'[m] = "done"
                /\ prompt'[m] = IF budget' = budget THEN TimedOutText ELSE prompt[m]]_vars

C11_Witness ==
    \E m \in Msgs :
      /\ Expiring(m) /\ timeout_task[m] = "done" /\ pc[m] = "done"
      /\ branch[m] = "timeout" /\ disabled[m]
      /\ prompt[m] = ConfirmationText(NumAttachments(m))

\* C12: the success notice reaches the submitter (on the prompt, or as the
\* fallback DM) only when the send to the public channel has already returned
\* successfully for that submission.
SuccessNoticed(m) ==
    \/ prompt[m] = SuccessText
    \/ \E i \in 1..Len(dms[m]) : dms[m][i].content = SuccessText

C12_SuccessMeansPosted ==
    [][\A m \in Msgs :
         SuccessNoticed(m)' =>
           /\ PublicOk(m) /\ posted_anon_message[m] # None
           /\ public_sends[m][1].payload.files # <<>>
                \/ public_sends[m][1].payload.embed.present]_vars

C12_Witness ==
    \E m \in Msgs : SuccessNoticed(m) /\ PublicOk(m) /\ pc[m] = "done"

\* C13: no transport failure after the confirmation leaves on_message through
\* an escaping exception: a confirmed relay never ends in a raise, whichever
\* call failed (attachment read, per-file notice, prompt edit, public send,
\* audit send).
C13_NoEscapingException ==
    \A m \in Msgs : branch[m] = "confirmed" => pc[m] \notin Raised

\* C14: a failed send to the mod log channel, whatever the error, is not
\* shown to the submitter: the handler ends there, the prompt is not turned
\* into a failure notice, no DM follows, and the public post stays the one
\* successful send.
AuditFailed(m) == \E i \in 1..Len(audit_sends[m]) : audit_sends[m][i].result # Ok

C14_AuditFailureInvisible ==
    \A m \in Msgs :
      AuditFailed(m) =>
        /\ pc[m] = "done"
        /\ prompt[m] \notin FailureTexts
        /\ \A i \in 1..Len(dms[m]) : dms[m][i].content \notin FailureTexts
        /\ Len(public_sends[m]) = 1 /\ PublicOk(m)

\* C15: when the send of the prompt fails no session exists for the message
\* (no view linked to a prompt, no timer, no interaction, no relay) and the
\* submitter has been told that the submission could not proceed.
PromptFailed(m) == pc[m] = "raised_prompt"

NoSession(m) ==
    /\ view_message[m] = None /\ prompt[m] = NoContent
    /\ stopped[m] = "no" /\ tasks[m] = <<>> /\ timeout_task[m] = "none"
    /\ confirmed_post[m] = None /\ branch[m] = "unread"
    /\ public_sends[m] = <<>> /\ audit_sends[m] = <<>>

C15_PromptFailureReported ==
    \A m \in Msgs : PromptFailed(m) => NoSession(m) /\ dms[m] # <<>>

\* C16: a decided session stays decided: once a click was accepted or the
\* timeout fired, no step changes confirmed_post, sets the branch the handler
\* read to another value, or replaces the decision notice on the prompt by
\* the notice of another decision.
DecisionNotices == {ProcessingText, CancelledText, TimedOutText}
Decided(m) == Accepted(m) # {} \/ TimeoutFired(m)

C16_TerminalIsFinal ==
    [][\A m \in Msgs :
         Decided(m) =>
           /\ confirmed_post'[m] = confirmed_post[m]
           /\ branch[m] # "unread" => branch'[m] = branch[m]
           /\ (prompt[m] \in DecisionNotices /\ prompt'[m] \in DecisionNotices)
                => prompt'[m] = prompt[m]]_vars

\* C17: sessions in flight at once are independent: a step of one session
\* (a click, the timeout, a failed read or send, any step of its relay)
\* changes nothing of another session, and what a session sends to the public
\* and mod log channels is made of its own message only: its text, its
\* attachments, its author.
Session(m) ==
    <<pc[m], original_message[m], view_message[m], confirmed_post[m], disabled[m],
      stopped[m], tasks[m], timeout_task[m], prompt[m], anon_channel[m],
      mod_log_channel[m], files_to_send[m], att_i[m], posted_anon_message[m],
      error[m], branch[m], public_sends[m], audit_sends[m], dms[m]>>

OwnFiles(m, files) ==
    \A j \in 1..Len(files) :
      \E i \in 1..NumAttachments(m) :
        /\ files[j].filename = original_message[m].attachments[i].filename
        /\ files[j].bytes = original_message[m].attachments[i].url

OwnSends(m) ==
    /\ \A i \in 1..Len(public_sends[m]) :
         /\ public_sends[m][i].payload.embed.description = original_message[m].content
         /\ OwnFiles(m, public_sends[m][i].payload.files)
    /\ \A i \in 1..Len(audit_sends[m]) :
         /\ audit_sends[m][i].payload.author = original_message[m].author
         /\ audit_sends[m][i].payload.attachments = original_message[m].attachments
         /\ original_message[m].content # ""
              => audit_sends[m][i].payload.content = original_message[m].content

C17_SessionsIndependent ==
    [][\A a \in Msgs :
         /\ OwnSends(a)'
         /\ Session(a)' # Session(a)
              => \A b \in Msgs \ {a} : Session(b)' = Session(b)]_vars

C17_Witness ==
    \E a \in Msgs, b \in Msgs :
      /\ a # b /\ original_message[a].author # original_message[b].author
      /\ original_message[a].content # original_message[b].content
      /\ PublicOk(a) /\ audit_sends[a] # <<>> /\ pc[a] = "done"
      /\ PublicFailed(b) /\ pc[b] = "done"

\* C18: every session resolves: a handler waiting in view.wait() eventually
\* leaves it and on_message eventually ends, also when the author never
\* presses a button, when only other users do, or when the edit of an
\* accepted click raised before stop(); the handler reads the outcome once,
\* and it never changes afterwards.
Waiting == \E m \in Msgs : pc[m] = "wait"
AllEnded == \A m \in Msgs : pc[m] \in Ended /\ (view_message[m] # None => branch[m] # "unread")

C18_EverySessionResolves ==
    /\ Waiting ~> AllEnded
    /\ [][\A m \in Msgs : branch[m] # "unread" => branch'[m] = branch[m]]_vars

C18_Witness ==
    \E m \in Msgs :
      /\ pc[m] \in Ended /\ branch[m] # "unread" /\ TimeoutFired(m)
      /\ \E k \in 1..Len(tasks[m]) : tasks[m][k].stage = "raised"

\* C19: only a message received in a DM channel whose author is not the bot
\* gets a prompt, a view or a relay: for the bot's own messages and for
\* messages of other channels on_message sends nothing and builds nothing.
NotForRelay(m) ==
    original_message[m].kind # "dm" \/ original_message[m].author = "bot"

C19_OnlyDmSubmissions ==
    \A m \in Msgs :
      NotForRelay(m) =>
        /\ NoSession(m) /\ dms[m] = <<>>
        /\ disabled[m] = FALSE /\ files_to_send[m] = <<>>
        /\ pc[m] \in {"idle", "done"}

C19_Witness ==
    \E m \in Msgs :
      /\ pc[m] = "done" /\ NoSession(m) /\ dms[m] = <<>>
      /\ original_message[m].kind = "dm" /\ original_message[m].author = "bot"

\* C20: a "Failed to post" notice is in front of the submitter (on the
\* prompt, or as a DM) only when no send to the public channel succeeded for
\* that submission.
FailureNoticed(m) ==
    \/ prompt[m] \in FailureTexts
    \/ \E i \in 1..Len(dms[m]) : dms[m][i].content \in FailureTexts

C20_FailureMeansNotPosted ==
    \A m \in Msgs : FailureNoticed(m) => ~PublicOk(m)

====
